---------------------------- MODULE Spec2Model ----------------------------
(***************************************************************************)
(* Model of SatelliteCoverageOptimizer (src/main.cpp): the registry of     *)
(* satellites, the target window, and the three queries                    *)
(* findMinimumSatellites (greedy), findMinimumCostCoverage (DP) and        *)
(* getCoverageSummary.                                                     *)
(*                                                                         *)
(* Times and costs are doubles in the source; the model draws them from    *)
(* small ranges of integers, on which the source's comparisons, min, max,  *)
(* sums and differences are exact.  coveragePercentage, a quotient, is     *)
(* kept as the fraction num/den.                                           *)
(***************************************************************************)
EXTENDS Integers, Sequences, FiniteSets, TLC

VARIABLES
    satellites,     \* SatelliteCoverageOptimizer::satellites (the registry)
    targetStart,    \* SatelliteCoverageOptimizer::targetStart
    targetEnd,      \* SatelliteCoverageOptimizer::targetEnd
    pc,             \* position of the running call ("idle" between calls)
    filtered,       \* local: the region-filtered, start-sorted copy
    i,              \* local: cursor of the greedy loop / outer index of the DP
    currentEnd,     \* local: frontier of the greedy loop
    selected,       \* local: selected satellites
    gaps,           \* local: gaps found
    dp,             \* local: dp[0..n], kept as a sequence indexed 1..n+1
    parent,         \* local: parent[0..n], kept as a sequence indexed 1..n+1
    result,         \* what the last finished call returned
    added,          \* history: the arguments of the addSatellite calls so far
    window0         \* history: the window the optimizer was constructed with

vars == <<satellites, targetStart, targetEnd, pc, filtered, i, currentEnd,
          selected, gaps, dp, parent, result, added, window0>>

-----------------------------------------------------------------------------
(* Bounds of the model *)

\* greedy runs: times 0..GreedyMaxT, at most GreedyMaxSats satellites
GreedyMaxT == 3
GreedyMaxSats == 3
\* DP runs: times 0..DPMaxT, at most DPMaxSats satellites
DPMaxT == 2
DPMaxSats == 2
\* the optimizer object: times 0..ApiMaxT, at most ApiMaxSats satellites
ApiMaxT == 1
ApiMaxSats == 2

\* std::numeric_limits<double>::infinity() (line 162): above every finite sum of costs
Infinity == 1000000

-----------------------------------------------------------------------------
(* Values *)

\* CoverageInterval(s, e)
CoverageInterval(s, e) == [start |-> s, end |-> e]

\* Satellite(n, i, c, r)
Satellite(n, iv, c, r) == [name |-> n, interval |-> iv, cost |-> c, region |-> r]

Min(a, b) == IF a < b THEN a ELSE b
Max(a, b) == IF a < b THEN b ELSE a

\* all sequences over S of length at most n
SeqsUpTo(S, n) == UNION {[1..k -> S] : k \in 0..n}

-----------------------------------------------------------------------------
(* filterByRegion and std::sort *)

RECURSIVE SelectRegion(_, _)
SelectRegion(sats, r) ==
    IF sats = <<>> THEN <<>>
    ELSE IF Head(sats).region = r
         THEN <<Head(sats)>> \o SelectRegion(Tail(sats), r)
         ELSE SelectRegion(Tail(sats), r)

filterByRegion(sats, r) == IF r = "All" THEN sats ELSE SelectRegion(sats, r)

\* Satellite::operator<
SatelliteLess(a, b) == a.interval.start < b.interval.start

\* One insertion of std::sort's insertion sort (the algorithm libstdc++ and
\* libc++ run on ranges this short): x moves left past every element it is
\* less than, so satellites of equal start keep their order.
RECURSIVE InsertSorted(_, _)
InsertSorted(s, x) ==
    IF s = <<>> THEN <<x>>
    ELSE IF SatelliteLess(x, s[Len(s)])
         THEN Append(InsertSorted(SubSeq(s, 1, Len(s) - 1), x), s[Len(s)])
         ELSE Append(s, x)

RECURSIVE SortByStart(_)
SortByStart(s) ==
    IF s = <<>> THEN <<>>
    ELSE InsertSorted(SortByStart(SubSeq(s, 1, Len(s) - 1)), s[Len(s)])

-----------------------------------------------------------------------------
(* findMinimumSatellites: the greedy loop *)

\* the loop condition of the outer while
GreedyGuard(f, T1, ce, k) == ce < T1 /\ k < Len(f)

\* the inner while: the cursor after every satellite starting at or before
\* currentEnd has been pushed to candidates (k counts the elements consumed,
\* so filtered[k] of the source is f[k + 1])
RECURSIVE CollectCandidates(_, _, _)
CollectCandidates(f, k, ce) ==
    IF k < Len(f) /\ f[k + 1].interval.start <= ce
    THEN CollectCandidates(f, k + 1, ce)
    ELSE k

\* std::max_element with the comparison a.end < b.end: the index of the first
\* candidate of greatest end
RECURSIVE MaxElementFrom(_, _, _)
MaxElementFrom(c, best, k) ==
    IF k > Len(c) THEN best
    ELSE MaxElementFrom(c, IF c[best].interval.end < c[k].interval.end
                           THEN k ELSE best, k + 1)

\* a slip in the selection: the first candidate, whatever its end
MaxElementFirstCandidate(c) == 1

MaxElement(c) == MaxElementFrom(c, 1, 2)

\* a slip in the gap branch: the bridging satellite is selected but the
\* cursor is not moved past it
GreedyGapBranchNoAdvance(f, T1, st, k) ==
    LET gapStart == st.currentEnd
        gapEnd   == IF k < Len(f) THEN Min(f[k + 1].interval.start, T1) ELSE T1
        gaps1    == IF gapStart < gapEnd
                    THEN Append(st.gaps, CoverageInterval(gapStart, gapEnd))
                    ELSE st.gaps
    IN  IF k < Len(f)
        THEN [currentEnd |-> f[k + 1].interval.end,
              selected   |-> Append(st.selected, f[k + 1]),
              gaps       |-> gaps1,
              i          |-> k,
              brk        |-> FALSE]
        ELSE [currentEnd |-> st.currentEnd,
              selected   |-> st.selected,
              gaps       |-> gaps1,
              i          |-> k,
              brk        |-> TRUE]

\* the gap branch of the loop body (candidates.empty())
GreedyGapBranch(f, T1, st, k) ==
    LET gapStart == st.currentEnd
        gapEnd   == IF k < Len(f) THEN Min(f[k + 1].interval.start, T1) ELSE T1
        gaps1    == IF gapStart < gapEnd
                    THEN Append(st.gaps, CoverageInterval(gapStart, gapEnd))
                    ELSE st.gaps
    IN  IF k < Len(f)
        THEN [currentEnd |-> f[k + 1].interval.end,
              selected   |-> Append(st.selected, f[k + 1]),
              gaps       |-> gaps1,
              i          |-> k + 1,
              brk        |-> FALSE]
        ELSE [currentEnd |-> st.currentEnd,
              selected   |-> st.selected,
              gaps       |-> gaps1,
              i          |-> k,
              brk        |-> TRUE]

\* the branch of the loop body that selects the candidate of maximum end
GreedySelectBranch(st, candidates, k) ==
    LET bestCandidate == candidates[MaxElement(candidates)]
    IN  [currentEnd |-> bestCandidate.interval.end,
         selected   |-> Append(st.selected, bestCandidate),
         gaps       |-> st.gaps,
         i          |-> k,
         brk        |-> FALSE]

\* one iteration of the outer while; st holds currentEnd, i, selected, gaps
GreedyBody(f, T1, st) ==
    LET k          == CollectCandidates(f, st.i, st.currentEnd)
        candidates == SubSeq(f, st.i + 1, k)
    IN  IF candidates = <<>>
        THEN GreedyGapBranch(f, T1, st, k)
        ELSE GreedySelectBranch(st, candidates, k)

\* the gap pushed after the loop
TrailingGap(gs, ce, T1) ==
    IF ce < T1 THEN Append(gs, CoverageInterval(ce, T1)) ELSE gs

RECURSIVE GreedyLoop(_, _, _)
GreedyLoop(f, T1, st) ==
    IF st.brk \/ ~GreedyGuard(f, T1, st.currentEnd, st.i) THEN st
    ELSE GreedyLoop(f, T1, GreedyBody(f, T1, st))

\* findMinimumSatellites(region) as one step
findMinimumSatellites(sats, T0, T1, r) ==
    LET f  == SortByStart(filterByRegion(sats, r))
        st == GreedyLoop(f, T1, [currentEnd |-> T0, selected |-> <<>>,
                                 gaps |-> <<>>, i |-> 0, brk |-> FALSE])
    IN  [selected |-> st.selected, gaps |-> TrailingGap(st.gaps, st.currentEnd, T1)]

-----------------------------------------------------------------------------
(* getCoverageSummary: the aggregation over a greedy selection *)

RECURSIVE SumCost(_)
SumCost(sel) == IF sel = <<>> THEN 0 ELSE Head(sel).cost + SumCost(Tail(sel))

\* what one selected satellite adds to coveredTime
CoveredPart(sat, T0, T1) ==
    LET start == Max(T0, sat.interval.start)
        end   == Min(T1, sat.interval.end)
    IN  end - start

RECURSIVE CoveredTime(_, _, _)
CoveredTime(sel, T0, T1) ==
    IF sel = <<>> THEN 0
    ELSE CoveredPart(Head(sel), T0, T1) + CoveredTime(Tail(sel), T0, T1)

\* a slip in the summary: the ratio is not scaled to a percentage
SummarizeRatio(sel, gs, T0, T1) ==
    LET coveredTime == CoveredTime(sel, T0, T1)
    IN  [totalDuration      |-> T1 - T0,
         coveredDuration    |-> coveredTime,
         coveragePercentage |-> [num |-> coveredTime, den |-> T1 - T0],
         gaps               |-> gs,
         satellitesUsed     |-> Len(sel),
         totalCost          |-> SumCost(sel)]

\* CoverageSummary built from the greedy result; coveragePercentage
\* (coveredTime / totalDuration) * 100.0 is the fraction num/den
Summarize(sel, gs, T0, T1) ==
    LET coveredTime == CoveredTime(sel, T0, T1)
    IN  [totalDuration      |-> T1 - T0,
         coveredDuration    |-> coveredTime,
         coveragePercentage |-> [num |-> coveredTime * 100, den |-> T1 - T0],
         gaps               |-> gs,
         satellitesUsed     |-> Len(sel),
         totalCost          |-> SumCost(sel)]

\* getCoverageSummary(region) as one step
getCoverageSummary(sats, T0, T1, r) ==
    LET g == findMinimumSatellites(sats, T0, T1, r)
    IN  Summarize(g.selected, g.gaps, T0, T1)

-----------------------------------------------------------------------------
(* findMinimumCostCoverage: the DP, the reconstruction and the gaps.        *)
(* dp[k] and parent[k] of the source are dp[k + 1] and parent[k + 1] here,  *)
(* filtered[k] is f[k + 1]; the values kept in parent are the source's.     *)

\* a slip in the relaxation: parent[j + 1] records the state i relaxed from
DPRelaxParentFrom(f, st, ii, j) ==
    LET newCost == st.dp[ii + 1] + f[j + 1].cost
    IN  IF newCost < st.dp[j + 2]
        THEN [dp     |-> [st.dp EXCEPT ![j + 2] = newCost],
              parent |-> [st.parent EXCEPT ![j + 2] = ii]]
        ELSE st

\* lines 175-179: the relaxation of dp[j + 1] from dp[i]
DPRelax(f, st, ii, j) ==
    LET newCost == st.dp[ii + 1] + f[j + 1].cost
    IN  IF newCost < st.dp[j + 2]
        THEN [dp     |-> [st.dp EXCEPT ![j + 2] = newCost],
              parent |-> [st.parent EXCEPT ![j + 2] = j]]
        ELSE st

\* lines 172-180: the inner for, from j on
RECURSIVE DPInner(_, _, _, _, _)
DPInner(f, st, ii, j, ce) ==
    IF j >= Len(f) THEN st
    ELSE IF f[j + 1].interval.start > ce THEN st
    ELSE DPInner(f, DPRelax(f, st, ii, j), ii, j + 1, ce)

\* lines 167-180: the body of the outer for at index ii
DPBody(f, T0, st, ii) ==
    IF st.dp[ii + 1] = Infinity THEN st
    ELSE LET ce == IF ii = 0 THEN T0
                   ELSE f[st.parent[ii + 1] + 1].interval.end
         IN  DPInner(f, st, ii, ii, ce)

\* lines 162-164
DPStart(n) ==
    [dp     |-> [k \in 1..(n + 1) |-> IF k = 1 THEN 0 ELSE Infinity],
     parent |-> [k \in 1..(n + 1) |-> -1]]

RECURSIVE DPLoop(_, _, _, _)
DPLoop(f, T0, st, ii) ==
    IF ii >= Len(f) THEN st
    ELSE DPLoop(f, T0, DPBody(f, T0, st, ii), ii + 1)

\* lines 188-192: the walk back from idx; acc.selected is in reverse order
RECURSIVE Reconstruct(_, _, _, _)
Reconstruct(f, par, idx, acc) ==
    IF idx > 0 /\ par[idx + 1] # -1
    THEN Reconstruct(f, par, par[idx + 1],
                     [selected  |-> Append(acc.selected, f[par[idx + 1] + 1]),
                      totalCost |-> acc.totalCost + f[par[idx + 1] + 1].cost])
    ELSE acc

\* std::reverse
Reverse(seq) == [k \in 1..Len(seq) |-> seq[Len(seq) + 1 - k]]

\* a slip in the gap scan: currentEnd follows the last satellite instead of
\* the furthest end seen
GapStepLastEnd(st, sat) ==
    [gaps       |-> IF sat.interval.start > st.currentEnd
                    THEN Append(st.gaps,
                                CoverageInterval(st.currentEnd, sat.interval.start))
                    ELSE st.gaps,
     currentEnd |-> sat.interval.end]

\* lines 200-205: one satellite of the selection
GapStep(st, sat) ==
    [gaps       |-> IF sat.interval.start > st.currentEnd
                    THEN Append(st.gaps,
                                CoverageInterval(st.currentEnd, sat.interval.start))
                    ELSE st.gaps,
     currentEnd |-> Max(st.currentEnd, sat.interval.end)]

RECURSIVE GapScan(_, _)
GapScan(sel, st) ==
    IF sel = <<>> THEN st ELSE GapScan(Tail(sel), GapStep(st, Head(sel)))

\* lines 197-209: the gaps of a selection
FindGaps(sel, T0, T1) ==
    LET st == GapScan(sel, [gaps |-> <<>>, currentEnd |-> T0])
    IN  TrailingGap(st.gaps, st.currentEnd, T1)

\* lines 183-211: what the call returns from the finished parent table
DPFinish(f, par, T0, T1) ==
    LET acc == Reconstruct(f, par, Len(f), [selected |-> <<>>, totalCost |-> 0])
        sel == Reverse(acc.selected)
    IN  [selected |-> sel, totalCost |-> acc.totalCost,
         gaps |-> FindGaps(sel, T0, T1)]

\* findMinimumCostCoverage(region) as one step
findMinimumCostCoverage(sats, T0, T1, r) ==
    LET f  == SortByStart(filterByRegion(sats, r))
        st == DPLoop(f, T0, DPStart(Len(f)), 0)
    IN  DPFinish(f, st.parent, T0, T1)

-----------------------------------------------------------------------------
(* Results and history *)

NoSummary == [totalDuration |-> 0, coveredDuration |-> 0,
              coveragePercentage |-> [num |-> 0, den |-> 0],
              gaps |-> <<>>, satellitesUsed |-> 0, totalCost |-> 0]

\* the value a finished call returned: selected and gaps (both covering
\* queries), totalCost (findMinimumCostCoverage), summary (getCoverageSummary)
Result(op, r, sel, gs, cost, sum) ==
    [op |-> op, region |-> r, selected |-> sel, gaps |-> gs,
     totalCost |-> cost, summary |-> sum]

NoResult == Result("none", "All", <<>>, <<>>, 0, NoSummary)

\* locals of a call that is not running
NoLocals ==
    /\ filtered = <<>>
    /\ i = 0
    /\ currentEnd = 0
    /\ selected = <<>>
    /\ gaps = <<>>
    /\ dp = <<>>
    /\ parent = <<>>

-----------------------------------------------------------------------------
(* getCoverageSummary("All") step by step: the greedy loop of                *)
(* findMinimumSatellites, its trailing gap, then the aggregation            *)

Ordered(iv) == iv.start <= iv.end

GreedyTimes == 0..GreedyMaxT

\* the satellites a greedy run draws from: every interval with start <= end
GreedySatellites ==
    {sat \in {Satellite("Sat", CoverageInterval(s, e), 1, "Global") :
                 s \in GreedyTimes, e \in GreedyTimes} : Ordered(sat.interval)}

\* entry of findMinimumSatellites, lines 99-105 done
GreedyInit ==
    /\ satellites \in SeqsUpTo(GreedySatellites, GreedyMaxSats)
    /\ targetStart \in GreedyTimes
    /\ targetEnd \in GreedyTimes
    /\ pc = "greedy_loop"
    /\ filtered = SortByStart(filterByRegion(satellites, "All"))
    /\ currentEnd = targetStart
    /\ i = 0
    /\ selected = <<>>
    /\ gaps = <<>>
    /\ dp = <<>>
    /\ parent = <<>>
    /\ result = NoResult
    /\ added = satellites
    /\ window0 = <<targetStart, targetEnd>>

GreedyFrame == UNCHANGED <<satellites, targetStart, targetEnd, filtered, dp,
                           parent, added, window0>>

\* one iteration of the outer while (lines 107-146)
GreedyIteration ==
    /\ pc = "greedy_loop"
    /\ GreedyGuard(filtered, targetEnd, currentEnd, i)
    /\ LET st == GreedyBody(filtered, targetEnd,
                            [currentEnd |-> currentEnd, selected |-> selected,
                             gaps |-> gaps, i |-> i])
       IN  /\ currentEnd' = st.currentEnd
           /\ selected' = st.selected
           /\ gaps' = st.gaps
           /\ i' = st.i
           /\ pc' = IF st.brk THEN "greedy_tail" ELSE "greedy_loop"
    /\ UNCHANGED result
    /\ GreedyFrame

\* the loop condition fails (line 107)
GreedyLoopExit ==
    /\ pc = "greedy_loop"
    /\ ~GreedyGuard(filtered, targetEnd, currentEnd, i)
    /\ pc' = "greedy_tail"
    /\ UNCHANGED <<currentEnd, selected, gaps, i, result>>
    /\ GreedyFrame

\* lines 148-152: the trailing gap and the return
GreedyReturn ==
    /\ pc = "greedy_tail"
    /\ gaps' = TrailingGap(gaps, currentEnd, targetEnd)
    /\ result' = Result("findMinimumSatellites", "All", selected, gaps', 0, NoSummary)
    /\ pc' = "summary"
    /\ UNCHANGED <<currentEnd, selected, i>>
    /\ GreedyFrame

\* lines 218-235: the summary of the selection just returned
SummaryReturn ==
    /\ pc = "summary"
    /\ result' = Result("getCoverageSummary", "All", <<>>, gaps, 0,
                        Summarize(selected, gaps, targetStart, targetEnd))
    /\ pc' = "idle"
    /\ UNCHANGED <<currentEnd, selected, gaps, i>>
    /\ GreedyFrame

GreedyNext == GreedyIteration \/ GreedyLoopExit \/ GreedyReturn \/ SummaryReturn

GreedySpec == GreedyInit /\ [][GreedyNext]_vars

-----------------------------------------------------------------------------
(* Coverage of the window, point by point.  All endpoints are integers, so  *)
(* [T0,T1) is the union of the unit cells [t,t+1), T0 <= t < T1, and an     *)
(* interval covers a cell entirely or not at all.                           *)

Cells(T0, T1) == {t \in T0..(T1 - 1) : TRUE}

CoversCell(iv, t) == iv.start <= t /\ t < iv.end

Range(seq) == {seq[k] : k \in 1..Len(seq)}

CoveredBy(sats, t) == \E k \in 1..Len(sats) : CoversCell(sats[k].interval, t)

GapsOver(gs, t) == {k \in 1..Len(gs) : CoversCell(gs[k], t)}

AllOrdered(sats) == \A k \in 1..Len(sats) : Ordered(sats[k].interval)

\* the maximal sub-intervals of [T0,T1) no satellite of sel covers
MaximalUncovered(sel, T0, T1) ==
    {iv \in [start : T0..T1, end : T0..T1] :
        /\ iv.start < iv.end
        /\ \A t \in iv.start..(iv.end - 1) : ~CoveredBy(sel, t)
        /\ iv.start = T0 \/ CoveredBy(sel, iv.start - 1)
        /\ iv.end = T1 \/ CoveredBy(sel, iv.end)}

\* (selected, gaps) tiles the window
Tiles(sel, gs, T0, T1) ==
    /\ \A t \in Cells(T0, T1) :
          \/ CoveredBy(sel, t) /\ GapsOver(gs, t) = {}
          \/ ~CoveredBy(sel, t) /\ Cardinality(GapsOver(gs, t)) = 1
    /\ \A j, k \in 1..Len(gs) :
          j # k => gs[j].end <= gs[k].start \/ gs[k].end <= gs[j].start
    /\ Range(gs) = MaximalUncovered(sel, T0, T1)
    /\ Len(gs) = Cardinality(Range(gs))

\* C1: the result (selected, gaps) of findMinimumSatellites exactly tiles the
\* window: every point of [T0,T1) is in a selected interval or in exactly one
\* gap, never both, the gaps are pairwise disjoint, and they are the maximal
\* uncovered sub-intervals of the window.
C1_GreedyTiles ==
    (result.op = "findMinimumSatellites" /\ AllOrdered(satellites)) =>
        Tiles(result.selected, result.gaps, targetStart, targetEnd)

\* the whole window is covered by the satellites of the list
UnionCovers(sats, T0, T1) == \A t \in Cells(T0, T1) : CoveredBy(sats, t)

\* the sets of indices of the list whose satellites cover the window
Covers(sats, T0, T1) ==
    {S \in SUBSET (1..Len(sats)) :
        \A t \in Cells(T0, T1) : \E k \in S : CoversCell(sats[k].interval, t)}

\* the least number of satellites of the list that cover the window
MinCoverSize(sats, T0, T1) ==
    LET sizes == {Cardinality(S) : S \in Covers(sats, T0, T1)}
    IN  CHOOSE n \in sizes : \A m \in sizes : n <= m

\* C2: when T0 < T1 and the union of the listed intervals covers the window,
\* findMinimumSatellites returns no gaps and a covering selection whose size
\* is the minimum number of listed providers that cover the window.
C2_GreedyMinimum ==
    (/\ result.op = "findMinimumSatellites"
     /\ AllOrdered(satellites)
     /\ targetStart < targetEnd
     /\ UnionCovers(satellites, targetStart, targetEnd)) =>
        /\ result.gaps = <<>>
        /\ UnionCovers(result.selected, targetStart, targetEnd)
        /\ Len(result.selected) = MinCoverSize(satellites, targetStart, targetEnd)

\* C2's case: a covered window that needs two of three listed providers
C2_Witness ==
    /\ result.op = "findMinimumSatellites"
    /\ AllOrdered(satellites)
    /\ targetStart < targetEnd
    /\ UnionCovers(satellites, targetStart, targetEnd)
    /\ Len(satellites) = 3
    /\ Len(result.selected) = 2

\* the overlap of one provider with the window, as section 4.4 states it
Overlap(sat, T0, T1) ==
    Max(0, Min(T1, sat.interval.end) - Max(T0, sat.interval.start))

RECURSIVE OverlapSum(_, _, _)
OverlapSum(sel, T0, T1) ==
    IF sel = <<>> THEN 0
    ELSE Overlap(Head(sel), T0, T1) + OverlapSum(Tail(sel), T0, T1)

\* C5: coveredDuration of getCoverageSummary is the sum over the providers
\* findMinimumSatellites selects of max(0, min(T1,end) - max(T0,start)), and
\* is never negative.
C5_CoveredDuration ==
    result.op = "getCoverageSummary" =>
        /\ result.summary.coveredDuration =
              OverlapSum(findMinimumSatellites(satellites, targetStart, targetEnd,
                                               result.region).selected,
                         targetStart, targetEnd)
        /\ result.summary.coveredDuration >= 0

\* C6: every gap a query returns is a non-empty sub-range of the window:
\* T0 <= gap.start < gap.end <= T1.
C6_GapsInsideWindow ==
    (result.op # "none" /\ AllOrdered(satellites)) =>
        \A k \in 1..Len(result.gaps) :
            /\ targetStart <= result.gaps[k].start
            /\ result.gaps[k].start < result.gaps[k].end
            /\ result.gaps[k].end <= targetEnd

\* C9: the main loop of findMinimumSatellites terminates: the cursor i never
\* decreases, every iteration of the outer loop strictly increases it within
\* the list (and selects one provider, so at most n are selected), and the
\* loop is left only with currentEnd >= T1 or the cursor at the end of the list.
C9_GreedyLoopTerminates ==
    /\ [][i' >= i]_vars
    /\ [][(pc = "greedy_loop" /\ GreedyGuard(filtered, targetEnd, currentEnd, i)) =>
             /\ i' > i
             /\ i' <= Len(filtered)
             /\ Len(selected') = Len(selected) + 1
             /\ Len(selected') <= i']_vars
    /\ [][(pc = "greedy_loop" /\ pc' # "greedy_loop") =>
             (currentEnd' >= targetEnd \/ i' = Len(filtered))]_vars

\* C9's case: the loop ran twice, through the gap branch, and exhausted the list
C9_Witness ==
    /\ pc = "greedy_tail"
    /\ Len(selected) >= 2
    /\ gaps # <<>>
    /\ i = Len(filtered)
    /\ currentEnd < targetEnd

-----------------------------------------------------------------------------
(* findMinimumCostCoverage("All") step by step: the outer loop of the DP,   *)
(* then the reconstruction, the gaps and the return                         *)

DPTimes == 0..DPMaxT

\* the costs a DP run draws from
DPCosts == {1, 2}

\* the satellites a DP run draws from: every interval with start <= end
DPSatellites ==
    {sat \in {Satellite("Sat", CoverageInterval(s, e), c, "Global") :
                 s \in DPTimes, e \in DPTimes, c \in DPCosts} : Ordered(sat.interval)}

\* entry of findMinimumCostCoverage, lines 158-164 done
DPInit ==
    /\ satellites \in SeqsUpTo(DPSatellites, DPMaxSats)
    /\ targetStart \in DPTimes
    /\ targetEnd \in DPTimes
    /\ pc = "dp_loop"
    /\ filtered = SortByStart(filterByRegion(satellites, "All"))
    /\ currentEnd = targetStart
    /\ i = 0
    /\ selected = <<>>
    /\ gaps = <<>>
    /\ dp = DPStart(Len(filtered)).dp
    /\ parent = DPStart(Len(filtered)).parent
    /\ result = NoResult
    /\ added = satellites
    /\ window0 = <<targetStart, targetEnd>>

DPFrame == UNCHANGED <<satellites, targetStart, targetEnd, filtered, currentEnd,
                       added, window0>>

\* one iteration of the outer for (lines 166-181)
DPIteration ==
    /\ pc = "dp_loop"
    /\ i < Len(filtered)
    /\ LET st == DPBody(filtered, targetStart, [dp |-> dp, parent |-> parent], i)
       IN  /\ dp' = st.dp
           /\ parent' = st.parent
    /\ i' = i + 1
    /\ UNCHANGED <<pc, selected, gaps, result>>
    /\ DPFrame

\* the loop condition fails (line 166)
DPLoopExit ==
    /\ pc = "dp_loop"
    /\ i >= Len(filtered)
    /\ pc' = "dp_finish"
    /\ UNCHANGED <<i, dp, parent, selected, gaps, result>>
    /\ DPFrame

\* lines 183-211: reconstruction, gaps and the return
DPReturn ==
    /\ pc = "dp_finish"
    /\ LET r == DPFinish(filtered, parent, targetStart, targetEnd)
       IN  /\ selected' = r.selected
           /\ gaps' = r.gaps
           /\ result' = Result("findMinimumCostCoverage", "All", r.selected,
                               r.gaps, r.totalCost, NoSummary)
    /\ pc' = "idle"
    /\ UNCHANGED <<i, dp, parent>>
    /\ DPFrame

DPNext == DPIteration \/ DPLoopExit \/ DPReturn

DPSpec == DPInit /\ [][DPNext]_vars

\* the cells of the window the satellites of sel cover
CoveredCells(sel, T0, T1) == {t \in Cells(T0, T1) : CoveredBy(sel, t)}

\* the sub-sequence of f at the indices of S, in increasing index order
RECURSIVE SubSequence(_, _, _)
SubSequence(f, S, k) ==
    IF k > Len(f) THEN <<>>
    ELSE IF k \in S THEN <<f[k]>> \o SubSequence(f, S, k + 1)
    ELSE SubSequence(f, S, k + 1)

\* a chain: its first provider starts at or before T0 and each next one
\* starts at or before the end of the previous one
IsChain(c, T0) ==
    /\ c # <<>>
    /\ c[1].interval.start <= T0
    /\ \A k \in 2..Len(c) : c[k].interval.start <= c[k - 1].interval.end

\* the chains that are sub-sequences of the start-sorted list f
Chains(f, T0) ==
    {c \in {SubSequence(f, S, 1) : S \in SUBSET (1..Len(f))} : IsChain(c, T0)}

\* C3: totalCost of findMinimumCostCoverage is at most the total cost of every
\* chain of the start-sorted list that reaches the same final coverage of the
\* window as the returned selection.
C3_DPCostMinimal ==
    result.op = "findMinimumCostCoverage" =>
        \A c \in Chains(SortByStart(filterByRegion(satellites, result.region)),
                        targetStart) :
            CoveredCells(c, targetStart, targetEnd)
                = CoveredCells(result.selected, targetStart, targetEnd)
            => result.totalCost <= SumCost(c)

\* the selection is in non-decreasing start order
StartSorted(sel) ==
    \A k \in 2..Len(sel) : sel[k - 1].interval.start <= sel[k].interval.start

\* C7: the gaps findMinimumCostCoverage returns are exactly the maximal
\* sub-intervals of [T0,T1) no provider of the returned selection covers, the
\* selection being in non-decreasing start order.
C7_DPGapsExact ==
    (result.op = "findMinimumCostCoverage" /\ AllOrdered(satellites)) =>
        /\ StartSorted(result.selected)
        /\ Tiles(result.selected, result.gaps, targetStart, targetEnd)

\* C7's case: a selection of two providers that leaves part of the window open
C7_Witness ==
    /\ result.op = "findMinimumCostCoverage"
    /\ AllOrdered(satellites)
    /\ Len(result.selected) >= 2
    /\ result.gaps # <<>>
    /\ CoveredCells(result.selected, targetStart, targetEnd) # {}

-----------------------------------------------------------------------------
(* The optimizer object: addSatellite and the three queries, each query one *)
(* step.  result is cleared by addSatellite, so that it always is a result  *)
(* for the current registry.                                                *)

ApiTimes == 0..ApiMaxT

\* the regions of the satellites added, and the regions queried
ApiRegions == {"Asia", "Europe"}
QueryRegions == {"All", "Asia"}

\* the constructor, lines 87-88, with the window (T0, T1)
Construct(T0, T1) ==
    /\ satellites = <<>>
    /\ targetStart = T0
    /\ targetEnd = T1
    /\ pc = "idle"
    /\ NoLocals
    /\ result = NoResult
    /\ added = <<>>
    /\ window0 = <<T0, T1>>

Init == \E T0 \in ApiTimes, T1 \in ApiTimes : Construct(T0, T1)

Locals == <<filtered, i, currentEnd, selected, gaps, dp, parent>>

\* addSatellite(name, start, end, cost, region), lines 90-94
AddSatellite(n, s, e, c, r) ==
    /\ pc = "idle"
    /\ satellites' = Append(satellites, Satellite(n, CoverageInterval(s, e), c, r))
    /\ added' = Append(added, Satellite(n, CoverageInterval(s, e), c, r))
    /\ result' = NoResult
    /\ UNCHANGED <<targetStart, targetEnd, pc, window0>>
    /\ UNCHANGED Locals

\* a query returns res: the registry and the window are not written
Return(res) ==
    /\ result' = res
    /\ UNCHANGED <<targetStart, targetEnd, pc, added, window0>>
    /\ UNCHANGED Locals

\* a slip in the query: std::sort runs on the registry itself
CallFindMinimumSatellitesInPlace(r) ==
    /\ pc = "idle"
    /\ LET g == findMinimumSatellites(satellites, targetStart, targetEnd, r)
       IN  Return(Result("findMinimumSatellites", r, g.selected, g.gaps, 0, NoSummary))
    /\ satellites' = SortByStart(satellites)

\* findMinimumSatellites(region), lines 97-153
CallFindMinimumSatellites(r) ==
    /\ pc = "idle"
    /\ LET g == findMinimumSatellites(satellites, targetStart, targetEnd, r)
       IN  Return(Result("findMinimumSatellites", r, g.selected, g.gaps, 0, NoSummary))
    /\ UNCHANGED satellites

\* findMinimumCostCoverage(region), lines 156-212
CallFindMinimumCostCoverage(r) ==
    /\ pc = "idle"
    /\ LET d == findMinimumCostCoverage(satellites, targetStart, targetEnd, r)
       IN  Return(Result("findMinimumCostCoverage", r, d.selected, d.gaps,
                         d.totalCost, NoSummary))
    /\ UNCHANGED satellites

\* getCoverageSummary(region), lines 215-236
CallGetCoverageSummary(r) ==
    /\ pc = "idle"
    /\ LET sum == getCoverageSummary(satellites, targetStart, targetEnd, r)
       IN  Return(Result("getCoverageSummary", r, <<>>, sum.gaps, 0, sum))
    /\ UNCHANGED satellites

Next ==
    \/ \E s \in ApiTimes, e \in ApiTimes, r \in ApiRegions :
          Len(satellites) < ApiMaxSats /\ AddSatellite("Sat", s, e, 1, r)
    \/ \E r \in QueryRegions : CallFindMinimumSatellites(r)
    \/ \E r \in QueryRegions : CallFindMinimumCostCoverage(r)
    \/ \E r \in QueryRegions : CallGetCoverageSummary(r)

Spec == Init /\ [][Next]_vars

\* C8: after any sequence of addSatellite and query calls the registry is the
\* sequence of providers added so far, in insertion order, and the window is
\* as constructed; a query writes neither the registry nor the window; and a
\* query repeated with the same region, with no addSatellite in between,
\* returns the same result again.
C8_QueriesArePure ==
    /\ [][satellites' = added' /\ <<targetStart', targetEnd'>> = window0']_vars
    /\ [][result'.op # "none" =>
             /\ satellites' = satellites
             /\ targetStart' = targetStart
             /\ targetEnd' = targetEnd]_vars
    /\ [][(/\ result.op # "none"
           /\ result'.op = result.op
           /\ result'.region = result.region) => result' = result]_vars

\* C8's case: two satellites added out of start order, then a query that
\* selects among them
C8_Witness ==
    /\ Len(satellites) = 2
    /\ satellites[1].interval.start > satellites[2].interval.start
    /\ satellites[1].region # satellites[2].region
    /\ result.op = "findMinimumSatellites"
    /\ result.region = "All"
    /\ Len(result.selected) = 2

-----------------------------------------------------------------------------
(* main: the optimizer over [0,24) and the ten satellites main registers,   *)
(* in main's order; the queries main makes, at any point of the             *)
(* registration                                                             *)

\* lines 327-336
MainSatellites ==
    << Satellite("Sat-Alpha",   CoverageInterval(0, 6),   1200, "Asia"),
       Satellite("Sat-Beta",    CoverageInterval(4, 10),  1500, "Europe"),
       Satellite("Sat-Gamma",   CoverageInterval(8, 14),  1800, "Asia"),
       Satellite("Sat-Delta",   CoverageInterval(12, 18), 1300, "Americas"),
       Satellite("Sat-Epsilon", CoverageInterval(16, 22), 1600, "Europe"),
       Satellite("Sat-Zeta",    CoverageInterval(20, 24), 1100, "Global"),
       Satellite("Sat-Eta",     CoverageInterval(2, 8),   900,  "Asia"),
       Satellite("Sat-Theta",   CoverageInterval(10, 16), 1400, "Europe"),
       Satellite("Sat-Iota",    CoverageInterval(14, 20), 1700, "Americas"),
       Satellite("Sat-Kappa",   CoverageInterval(18, 23), 1000, "Global") >>

\* the regions main queries (lines 346, 355, 366, 378)
MainRegions == {"All", "Asia", "Europe", "Americas"}

\* line 324
MainInit == Construct(0, 24)

\* the next addSatellite call of main
MainAddSatellite ==
    /\ Len(satellites) < Len(MainSatellites)
    /\ LET m == MainSatellites[Len(satellites) + 1]
       IN  AddSatellite(m.name, m.interval.start, m.interval.end, m.cost, m.region)

MainNext ==
    \/ MainAddSatellite
    \/ \E r \in MainRegions : CallFindMinimumSatellites(r)
    \/ \E r \in MainRegions : CallFindMinimumCostCoverage(r)
    \/ \E r \in MainRegions : CallGetCoverageSummary(r)

MainSpec == MainInit /\ [][MainNext]_vars

\* the registry holds Sat-Alpha, Sat-Eta and Sat-Gamma as its Asia providers,
\* the window is [0,24), and getCoverageSummary("Asia") has returned
AsiaSummaryReturned ==
    /\ targetStart = 0
    /\ targetEnd = 24
    /\ Len(filterByRegion(satellites, "Asia")) = 3
    /\ Range(filterByRegion(satellites, "Asia"))
          = {MainSatellites[1], MainSatellites[3], MainSatellites[7]}
    /\ result.op = "getCoverageSummary"
    /\ result.region = "Asia"

\* C4 as stated: in the Asia scenario getCoverageSummary("Asia") reports
\* exactly one gap [14,24) of duration 10, coveredDuration = 14 and
\* coveragePercentage = 14/24*100.
C4_AsiaSummaryAsClaimed ==
    AsiaSummaryReturned =>
        /\ result.summary.gaps = <<CoverageInterval(14, 24)>>
        /\ result.summary.gaps[1].end - result.summary.gaps[1].start = 10
        /\ result.summary.coveredDuration = 14
        /\ result.summary.coveragePercentage.num * 24
              = 14 * 100 * result.summary.coveragePercentage.den

\* C4 amended: in the Asia scenario getCoverageSummary("Asia") reports exactly
\* one gap [14,24) of duration 10, coveredDuration = 18 (6 + 6 + 6: the
\* overlap of Sat-Alpha and Sat-Eta counted twice) and coveragePercentage =
\* 18/24*100 = 75.
C4_AsiaSummary ==
    AsiaSummaryReturned =>
        /\ result.summary.gaps = <<CoverageInterval(14, 24)>>
        /\ result.summary.gaps[1].end - result.summary.gaps[1].start = 10
        /\ result.summary.totalDuration = 24
        /\ result.summary.coveredDuration = 18
        /\ result.summary.coveragePercentage.den # 0
        /\ result.summary.coveragePercentage.num
              = 75 * result.summary.coveragePercentage.den

\* C4's case: all ten satellites of main registered, the Asia summary returned
C4_Witness ==
    /\ AsiaSummaryReturned
    /\ satellites = MainSatellites
    /\ result.summary.satellitesUsed = 3

=============================================================================
